---- MODULE Spec2Model ----
(***************************************************************************)
(* Model of Palanaeum/harmony:                                             *)
(*   src/src/message-utils.ts   the Discord markdown dialect (rules fed to *)
(*       simple-markdown's parserFor), sanitize, escape, the link patterns *)
(*       and resolveMessageLink;                                           *)
(*   src/bot/src/main/kotlin/dump.kt   readOldMessages and runDump.        *)
(*                                                                         *)
(* A string is a sequence of characters, a character a one-character       *)
(* string.  Regular expressions are written out as the scans that the      *)
(* backtracking matcher performs, so greedy/lazy choices are the code's.   *)
(***************************************************************************)
EXTENDS Integers, Sequences, FiniteSets, TLC

VARIABLES
    raw,        \* the string handed to sanitize()/parse()
    pc,         \* position of the parse: "idle", "ready", "parsing", "done", "error"
    stack,      \* activation records of nestedParse, innermost last
    state,      \* the parser's State object, shared by every nested call
    output,     \* what sanitize() returned
    link,       \* resolveMessageLink: the link argument
    world,      \* resolveMessageLink: options.asUser and the channel fetched
    rpc,        \* resolveMessageLink: position of the async function
    calls,      \* resolveMessageLink: the lookups made so far, in order
    outcome,    \* resolveMessageLink: how the promise settled
    history,    \* dump: the channel's messages, newest first
    dates,      \* dump: startDate and endDate
    cursor,     \* dump: how far upstream has been read
    upstream,   \* dump: "open", "cancelled" (takeUntil hit) or "complete"
    emitted,    \* dump: what readOldMessages emitted
    window,     \* dump: the open window(1000) group
    imported    \* dump: what reached dbDumper and elasticDumper

parseVars == <<raw, pc, stack, state, output>>
linkVars == <<link, world, rpc, calls, outcome>>
dumpVars == <<history, dates, cursor, upstream, emitted, window, imported>>
vars == <<raw, pc, stack, state, output, link, world, rpc, calls, outcome,
          history, dates, cursor, upstream, emitted, window, imported>>

---------------------------------------------------------------------------
(* Strings                                                                 *)

Min(S) == CHOOSE x \in S : \A y \in S : x <= y
Max(S) == CHOOSE x \in S : \A y \in S : x >= y

\* F(x), with x evaluated once, before F is applied
Force(F(_), x) == CHOOSE r \in {F(v) : v \in {x}} : TRUE

Take(s, n) == SubSeq(s, 1, n)
Drop(s, n) == SubSeq(s, n + 1, Len(s))

\* s has the characters of p at index i
StartsWith(s, i, p) ==
    /\ i >= 1
    /\ i + Len(p) - 1 <= Len(s)
    /\ \A k \in 1..Len(p) : s[i + k - 1] = p[k]

RECURSIVE Concat(_)
Concat(ss) == IF ss = <<>> THEN <<>> ELSE Head(ss) \o Concat(Tail(ss))

\* the first index >= p whose character is not in class C (Len(s)+1 if none)
RunEnd(s, p, C) ==
    Min({i \in p..(Len(s) + 1) : i = Len(s) + 1 \/ s[i] \notin C})

\* the first index >= p whose character is in class C (Len(s)+1 if none)
Find(s, p, C) ==
    Min({i \in p..(Len(s) + 1) : i = Len(s) + 1 \/ s[i] \in C})

\* the character U+0060, which a TLA+ string cannot hold
Backtick == "backtick"

Digits == {"0", "1", "2", "3", "4", "5", "6", "7", "8", "9"}
Lower == {"a", "b", "c", "d", "e", "f", "g", "h", "i", "j", "k", "l", "m",
          "n", "o", "p", "q", "r", "s", "t", "u", "v", "w", "x", "y", "z"}
Upper == {"A", "B", "C", "D", "E", "F", "G", "H", "I", "J", "K", "L", "M",
          "N", "O", "P", "Q", "R", "S", "T", "U", "V", "W", "X", "Y", "Z"}
\* \s of the regular expressions
Whitespace == {" ", "\n", "\t", "\r", "\f"}
\* \w
WordChars == Digits \cup Lower \cup Upper \cup {"_"}
\* the characters of À-￿ that the model uses
HighChars == {"ツ"}
\* [0-9A-Za-z\sÀ-￿-], the characters the text rule runs over
TextOrdinary == Digits \cup Lower \cup Upper \cup Whitespace \cup HighChars \cup {"-"}

---------------------------------------------------------------------------
(* Captures and nodes                                                      *)

null == [ok |-> FALSE, c0 |-> <<>>, c1 |-> <<>>, c2 |-> <<>>, c3 |-> <<>>]
Capture(all, g1, g2, g3) == [ok |-> TRUE, c0 |-> all, c1 |-> g1, c2 |-> g2, c3 |-> g3]

\* a node with no field set; type "" is a node whose rule left the type unset
Blank == [type |-> "", content |-> <<>>, text |-> <<>>, id |-> <<>>, name |-> <<>>,
          lang |-> <<>>, target |-> <<>>, animated |-> FALSE, inQuote |-> FALSE]

---------------------------------------------------------------------------
(* simple-markdown's match wrappers                                        *)

inlineRegex(st, capture) == IF st.inline THEN capture ELSE null
blockRegex(st, capture) == IF st.inline THEN null ELSE capture
anyScopeRegex(st, capture) == capture

---------------------------------------------------------------------------
(* rules.text                                                              *)

\* \w+:\S at index p
WordColonAt(s, p) ==
    LET e == RunEnd(s, p, WordChars)
    IN  /\ e > p
        /\ e + 1 <= Len(s)
        /\ s[e] = ":"
        /\ s[e + 1] \notin Whitespace

\* the lookahead without its last alternative, $
text_lookahead_noEnd(s, k) ==
    /\ k < Len(s)
    /\ \/ s[k + 1] \notin TextOrdinary
       \/ s[k + 1] = "\n"
       \/ WordColonAt(s, k + 1)

\* (?=[^0-9A-Za-z\sÀ-￿-]|\n\n|\n|\w+:\S|$) after k characters
text_lookahead(s, k) ==
    \/ k = Len(s)
    \/ /\ k < Len(s)
       /\ \/ s[k + 1] \notin TextOrdinary
          \/ s[k + 1] = "\n"
          \/ WordColonAt(s, k + 1)

\* [\s\S]+? is lazy: the fewest characters after which the lookahead holds
text_match(source) ==
    LET K == {k \in 1..Len(source) : text_lookahead(source, k)}
    IN  IF K = {} THEN null ELSE Capture(Take(source, Min(K)), <<>>, <<>>, <<>>)

text_parse(capture) == [Blank EXCEPT !.content = <<>>, !.text = capture.c0]

---------------------------------------------------------------------------
(* rules.blockQuote                                                        *)

\* /^$|\n *$/.test(prevSource)
AtLineStart(prevSource) ==
    \/ prevSource = <<>>
    \/ \E i \in 1..Len(prevSource) :
          /\ prevSource[i] = "\n"
          /\ \A j \in (i + 1)..Len(prevSource) : prevSource[j] = " "

\* (\n *> [^\n]*)* from index e, greedy: the index after the last quoted line
RECURSIVE quoteLines(_, _)
quoteLines(s, e) ==
    IF e <= Len(s) /\ s[e] = "\n"
    THEN LET q == RunEnd(s, e + 1, {" "})
         IN  IF StartsWith(s, q, <<">", " ">>)
             THEN quoteLines(s, Find(s, q + 2, {"\n"}))
             ELSE e
    ELSE e

\* /^( *>>> ([\s\S]*))|^( *> [^\n]*(\n *> [^\n]*)*\n?)/.exec(source)
blockQuote_regex(source) ==
    LET sp == RunEnd(source, 1, {" "})
    IN  IF StartsWith(source, sp, <<">", ">", ">", " ">>)
        THEN Capture(source, source, Drop(source, sp + 3), <<>>)
        ELSE IF StartsWith(source, sp, <<">", " ">>)
        THEN LET e == quoteLines(source, Find(source, sp + 2, {"\n"}))
                 end == IF e <= Len(source) /\ source[e] = "\n" THEN e ELSE e - 1
             IN  Capture(Take(source, end), <<>>, <<>>, Take(source, end))
        ELSE null

blockQuote_match(source, st, prevSource) ==
    IF ~AtLineStart(prevSource) \/ st.inQuote THEN null ELSE blockQuote_regex(source)

\* Boolean(/^ *>>> ?/.exec(all))
isBlock(all) == StartsWith(all, RunEnd(all, 1, {" "}), <<">", ">", ">">>)

\* all.replace(/^ *>>> ?/, '')
removeBlockSyntax(all) ==
    LET sp == RunEnd(all, 1, {" "})
    IN  IF StartsWith(all, sp + 3, <<" ">>) THEN Drop(all, sp + 3) ELSE Drop(all, sp + 2)

\* all.replace(/^ *> ?/gm, '') from the line that starts at index i on: the
\* marker is removed at the start of each line
RECURSIVE removeLineSyntaxFrom(_, _)
removeLineSyntaxLine(all, i) ==
    LET q == RunEnd(all, i, {" "})
        b == IF StartsWith(all, q, <<">">>)
             THEN IF StartsWith(all, q + 1, <<" ">>) THEN q + 2 ELSE q + 1
             ELSE i
        nl == Find(all, b, {"\n"})
    IN  IF nl > Len(all) THEN SubSeq(all, b, Len(all))
        ELSE SubSeq(all, b, nl) \o removeLineSyntaxFrom(all, nl + 1)
removeLineSyntaxFrom(all, i) ==
    IF i > Len(all) THEN <<>> ELSE Force(LAMBDA v : removeLineSyntaxLine(all, v), i)

\* the replace without the m flag: only the first line's marker goes
removeLineSyntax_firstLine(all) ==
    LET q == RunEnd(all, 1, {" "})
    IN  IF StartsWith(all, q, <<">", " ">>) THEN Drop(all, q + 1)
        ELSE IF StartsWith(all, q, <<">">>) THEN Drop(all, q)
        ELSE all

removeLineSyntax(all) == removeLineSyntaxFrom(all, 1)

blockQuote_content(capture) ==
    IF isBlock(capture.c0) THEN removeBlockSyntax(capture.c0) ELSE removeLineSyntax(capture.c0)

\* the assignments before parse(content, state)
blockQuote_enter(capture, st) ==
    [st EXCEPT !.inQuote = TRUE,
               !.inline = IF ~isBlock(capture.c0) THEN TRUE ELSE st.inline]

\* the assignments after parse(content, state): x = x || false
blockQuote_leave(st) ==
    [st EXCEPT !.inQuote = (st.inQuote \/ FALSE), !.inline = (st.inline \/ FALSE)]

---------------------------------------------------------------------------
(* rules.codeBlock                                                         *)

Fence == <<Backtick, Backtick, Backtick>>
\* [a-z0-9-] under the i flag
LangChars == Digits \cup Lower \cup Upper \cup {"-"}

\* \n*``` at index e: the index after the closing fence, 0 when there is none
closeFence(s, e) ==
    LET n == RunEnd(s, e, {"\n"})
    IN  IF StartsWith(s, n, Fence) THEN n + 3 ELSE 0

\* ([^]+?)\n*``` with the body starting at p: the index after the body, 0 if none
fenceBody(s, p) ==
    LET E == {e \in (p + 1)..Len(s) : closeFence(s, e) > 0}
    IN  IF E = {} THEN 0 ELSE Min(E)

\* \n* gives newlines back one at a time: the last start in lo..hi with a body
fenceStart(s, lo, hi) ==
    LET P == {p \in lo..hi : fenceBody(s, p) > 0}
    IN  IF P = {} THEN 0 ELSE Max(P)

\* /^```(([a-z0-9-]+?)\n+)?\n*([^]+?)\n*```/i
codeBlock_regex(source) ==
    IF ~StartsWith(source, 1, Fence) THEN null
    ELSE LET le == RunEnd(source, 4, LangChars)
             hasLang == le > 4 /\ le <= Len(source) /\ source[le] = "\n"
             pLang == IF hasLang
                      THEN fenceStart(source, le + 1, RunEnd(source, le, {"\n"}))
                      ELSE 0
             pBare == fenceStart(source, 4, RunEnd(source, 4, {"\n"}))
             p == IF pLang > 0 THEN pLang ELSE pBare
             e == fenceBody(source, p)
         IN  IF p = 0 THEN null
             ELSE Capture(Take(source, closeFence(source, e) - 1),
                          <<>>,
                          IF pLang > 0 THEN SubSeq(source, 4, le - 1) ELSE <<>>,
                          SubSeq(source, p, e - 1))

codeBlock_match(source, st) == inlineRegex(st, codeBlock_regex(source))

codeBlock_parse(capture, st) ==
    [Blank EXCEPT !.lang = capture.c2, !.text = capture.c3, !.inQuote = (st.inQuote \/ FALSE)]

---------------------------------------------------------------------------
(* rules.newline, rules.escape, rules.br  (simple-markdown's defaults)     *)

\* (?: *\n)+ from index i, greedy: the index after the last blank line
RECURSIVE blankLines(_, _)
blankLines(s, i) ==
    LET q == RunEnd(s, i, {" "})
    IN  IF q <= Len(s) /\ s[q] = "\n" THEN blankLines(s, q + 1) ELSE i

\* blockRegex(/^(?: *\n)+/)
newline_match(source, st) ==
    LET e == blankLines(source, 1)
    IN  blockRegex(st, IF e > 1 THEN Capture(Take(source, e - 1), <<>>, <<>>, <<>>) ELSE null)

\* inlineRegex(/^\\([^0-9A-Za-z\s])/)
escape_match(source, st) ==
    inlineRegex(st,
        IF /\ Len(source) >= 2
           /\ source[1] = "\\"
           /\ source[2] \notin (Digits \cup Lower \cup Upper \cup Whitespace)
        THEN Capture(Take(source, 2), <<source[2]>>, <<>>, <<>>)
        ELSE null)

escape_parse(capture) == [Blank EXCEPT !.type = "text", !.text = capture.c1]

\* anyScopeRegex(/^\n/)
br_match(source, st) ==
    anyScopeRegex(st,
        IF StartsWith(source, 1, <<"\n">>) THEN Capture(<<"\n">>, <<>>, <<>>, <<>>) ELSE null)

---------------------------------------------------------------------------
(* rules.autolink, rules.url                                               *)

\* inlineRegex(/^<([^: >]+:\/[^ >]+)>/)
autolink_match(source, st) ==
    inlineRegex(st,
        IF ~StartsWith(source, 1, <<"<">>) THEN null
        ELSE LET a == Find(source, 2, {":", " ", ">"})
                 b == Find(source, a + 2, {" ", ">"})
             IN  IF /\ a > 2
                    /\ StartsWith(source, a, <<":", "/">>)
                    /\ b > a + 2
                    /\ StartsWith(source, b, <<">">>)
                 THEN Capture(Take(source, b), SubSeq(source, 2, b - 1), <<>>, <<>>)
                 ELSE null)

\* [<.,:;"')\]\s], what a bare URL may not end with
UrlTrail == {"<", ".", ",", ":", ";", "\"", "'", ")", "]"} \cup Whitespace

\* inlineRegex(/^(https?:\/\/[^\s<]+[^<.,:;"')\]\s])/)
url_match(source, st) ==
    inlineRegex(st,
        LET base == IF StartsWith(source, 1, <<"h", "t", "t", "p", "s", ":", "/", "/">>) THEN 8
                    ELSE IF StartsWith(source, 1, <<"h", "t", "t", "p", ":", "/", "/">>) THEN 7
                    ELSE 0
            r == Find(source, base + 1, Whitespace \cup {"<"})
            N == {n \in (base + 2)..(r - 1) : source[n] \notin UrlTrail}
        IN  IF base = 0 \/ N = {} THEN null
            ELSE Capture(Take(source, Max(N)), Take(source, Max(N)), <<>>, <<>>))

\* autolink.parse and url.parse: the URL text as the only child, and as the target
link_parse(capture) ==
    [Blank EXCEPT !.content = <<[Blank EXCEPT !.type = "text", !.text = capture.c1]>>,
                  !.target = capture.c1]

---------------------------------------------------------------------------
(* rules.em, rules.strong, rules.u, rules.strike, rules.inlineCode         *)

\* ((?:__|\\[\s\S]|[^\\_])+?)_\b from index i: the index after the match, 0 if none
RECURSIVE emUnderscoreScan(_, _, _)
emUnderscoreScan(s, i, some) ==
    IF i > Len(s) THEN 0
    ELSE IF some /\ s[i] = "_" /\ (i = Len(s) \/ s[i + 1] \notin WordChars) THEN i + 1
    ELSE IF s[i] = "_"
    THEN IF StartsWith(s, i, <<"_", "_">>) THEN emUnderscoreScan(s, i + 2, TRUE) ELSE 0
    ELSE IF s[i] = "\\"
    THEN IF i + 1 <= Len(s) THEN emUnderscoreScan(s, i + 2, TRUE) ELSE 0
    ELSE emUnderscoreScan(s, i + 1, TRUE)

\* ((?:\*\*|\\[\s\S]|\s+(?:\\[\s\S]|[^\s\*\\]|\*\*)|[^\s\*\\])+?)\*(?!\*) from index i
RECURSIVE emStarScan(_, _, _)
emStarScan(s, i, some) ==
    IF i > Len(s) THEN 0
    ELSE IF some /\ s[i] = "*" /\ ~StartsWith(s, i + 1, <<"*">>) THEN i + 1
    ELSE IF s[i] = "*"
    THEN IF StartsWith(s, i, <<"*", "*">>) THEN emStarScan(s, i + 2, TRUE) ELSE 0
    ELSE IF s[i] = "\\"
    THEN IF i + 1 <= Len(s) THEN emStarScan(s, i + 2, TRUE) ELSE 0
    ELSE IF s[i] \in Whitespace
    THEN LET j == RunEnd(s, i, Whitespace)
         IN  IF j > Len(s) THEN 0
             ELSE IF s[j] = "\\"
             THEN IF j + 1 <= Len(s) THEN emStarScan(s, j + 2, TRUE) ELSE 0
             ELSE IF s[j] = "*"
             THEN IF StartsWith(s, j, <<"*", "*">>) THEN emStarScan(s, j + 2, TRUE) ELSE 0
             ELSE emStarScan(s, j + 1, TRUE)
    ELSE emStarScan(s, i + 1, TRUE)

\* inlineRegex(^\b_(...)_\b | ^\*(?=\S)(...)\*(?!\*))
em_match(source, st) ==
    inlineRegex(st,
        IF StartsWith(source, 1, <<"_">>)
        THEN LET e == emUnderscoreScan(source, 2, FALSE)
             IN  IF e = 0 THEN null
                 ELSE Capture(Take(source, e - 1), SubSeq(source, 2, e - 2), <<>>, <<>>)
        ELSE IF StartsWith(source, 1, <<"*">>) /\ Len(source) >= 2 /\ source[2] \notin Whitespace
        THEN LET e == emStarScan(source, 2, FALSE)
             IN  IF e = 0 THEN null
                 ELSE Capture(Take(source, e - 1), <<>>, SubSeq(source, 2, e - 2), <<>>)
        ELSE null)

\* parse(capture[2] || capture[1], state)
em_content(capture) == IF capture.c2 # <<>> THEN capture.c2 ELSE capture.c1

\* ((?:\\[\s\S]|[^\\])+?)dd(?!d) from index i: the index after the match, 0 if none
RECURSIVE pairedScan(_, _, _, _)
pairedScan(s, i, some, d) ==
    IF i > Len(s) THEN 0
    ELSE IF some /\ StartsWith(s, i, <<d, d>>) /\ ~StartsWith(s, i + 2, <<d>>) THEN i + 2
    ELSE IF s[i] = "\\"
    THEN IF i + 1 <= Len(s) THEN pairedScan(s, i + 2, TRUE, d) ELSE 0
    ELSE pairedScan(s, i + 1, TRUE, d)

paired_regex(source, d) ==
    IF ~StartsWith(source, 1, <<d, d>>) THEN null
    ELSE LET e == pairedScan(source, 3, FALSE, d)
         IN  IF e = 0 THEN null
             ELSE Capture(Take(source, e - 1), SubSeq(source, 3, e - 3), <<>>, <<>>)

\* inlineRegex(/^\*\*((?:\\[\s\S]|[^\\])+?)\*\*(?!\*)/)
strong_match(source, st) == inlineRegex(st, paired_regex(source, "*"))

\* inlineRegex(/^__((?:\\[\s\S]|[^\\])+?)__(?!_)/)
u_match(source, st) == inlineRegex(st, paired_regex(source, "_"))

\* inlineRegex(/^~~([\s\S]+?)~~(?!_)/)
strike_match(source, st) ==
    inlineRegex(st,
        LET E == {e \in 4..(Len(source) - 1) :
                     /\ StartsWith(source, e, <<"~", "~">>)
                     /\ ~StartsWith(source, e + 2, <<"_">>)}
        IN  IF ~StartsWith(source, 1, <<"~", "~">>) \/ E = {} THEN null
            ELSE Capture(Take(source, Min(E) + 1), SubSeq(source, 3, Min(E) - 1), <<>>, <<>>))

\* ([\s\S]*?[^`])\1(?!`) after n opening backticks: the index of the last body
\* character, 0 if none
inlineCodeBody(s, n) ==
    LET E == {e \in (n + 1)..(Len(s) - n) :
                 /\ s[e] # Backtick
                 /\ \A k \in 1..n : s[e + k] = Backtick
                 /\ ~StartsWith(s, e + n + 1, <<Backtick>>)}
    IN  IF E = {} THEN 0 ELSE Min(E)

\* inlineRegex(/^(`+)([\s\S]*?[^`])\1(?!`)/): `+ gives backticks back one at a time
inlineCode_match(source, st) ==
    inlineRegex(st,
        LET run == RunEnd(source, 1, {Backtick}) - 1
            N == {n \in 1..run : inlineCodeBody(source, n) > 0}
        IN  IF N = {} THEN null
            ELSE LET n == Max(N)
                     e == inlineCodeBody(source, n)
                 IN  Capture(Take(source, e + n), Take(source, n), SubSeq(source, n + 1, e), <<>>))

\* capture[2].replace(/^ (?= *`)|(` *) $/g, "$1")
inlineCode_content(body) ==
    LET lead == /\ StartsWith(body, 1, <<" ">>)
                /\ StartsWith(body, RunEnd(body, 2, {" "}), <<Backtick>>)
        b1 == IF lead THEN Tail(body) ELSE body
        trail == /\ Len(b1) >= 2
                 /\ b1[Len(b1)] = " "
                 /\ \E i \in 1..(Len(b1) - 1) :
                       b1[i] = Backtick /\ \A j \in (i + 1)..(Len(b1) - 1) : b1[j] = " "
    IN  IF trail THEN Take(b1, Len(b1) - 1) ELSE b1

inlineCode_parse(capture) == [Blank EXCEPT !.text = inlineCode_content(capture.c2)]

---------------------------------------------------------------------------
(* rules.emoticon, rules.spoiler                                           *)

Shrug == <<"¯", "\\", "_", "(", "ツ", ")", "_", "/", "¯">>

\* /^(¯\\_\(ツ\)_\/¯)/.exec(source)
emoticon_match(source) ==
    IF StartsWith(source, 1, Shrug) THEN Capture(Shrug, Shrug, <<>>, <<>>) ELSE null

emoticon_parse(capture) == [Blank EXCEPT !.type = "text", !.text = capture.c1]

\* /^\|\|([\s\S]+?)\|\|/.exec(source)
spoiler_match(source) ==
    LET E == {e \in 4..(Len(source) - 1) : StartsWith(source, e, <<"|", "|">>)}
    IN  IF ~StartsWith(source, 1, <<"|", "|">>) \/ E = {} THEN null
        ELSE Capture(Take(source, Min(E) + 1), SubSeq(source, 3, Min(E) - 1), <<>>, <<>>)

---------------------------------------------------------------------------
(* discordRules                                                            *)

\* "<", then one of the optional prefixes, then [0-9]*, then ">"
mention_regex(source, prefix, optional) ==
    LET withPrefix == StartsWith(source, 2, prefix)
        from == IF withPrefix THEN 2 + Len(prefix) ELSE 2
        e == RunEnd(source, from, Digits)
    IN  IF /\ StartsWith(source, 1, <<"<">>)
           /\ (withPrefix \/ optional)
           /\ StartsWith(source, e, <<">">>)
        THEN Capture(Take(source, e), SubSeq(source, from, e - 1), <<>>, <<>>)
        ELSE null

\* /^<@!?([0-9]*)>/
discordUser_match(source) ==
    IF StartsWith(source, 1, <<"<", "@", "!">>)
    THEN mention_regex(source, <<"@", "!">>, FALSE)
    ELSE mention_regex(source, <<"@">>, FALSE)

\* /^<#?([0-9]*)>/
discordChannel_match(source) == mention_regex(source, <<"#">>, TRUE)

\* /^<@&([0-9]*)>/
discordRole_match(source) == mention_regex(source, <<"@", "&">>, FALSE)

mention_parse(capture) == [Blank EXCEPT !.id = capture.c1]

\* /^<(a?):(\w+):(\d+)>/
discordEmoji_match(source) ==
    LET a == IF StartsWith(source, 2, <<"a">>) THEN 1 ELSE 0
        n == RunEnd(source, 3 + a, WordChars)
        d == RunEnd(source, n + 1, Digits)
    IN  IF /\ StartsWith(source, 1, <<"<">>)
           /\ StartsWith(source, 2 + a, <<":">>)
           /\ n > 3 + a
           /\ StartsWith(source, n, <<":">>)
           /\ d > n + 1
           /\ StartsWith(source, d, <<">">>)
        THEN Capture(Take(source, d), SubSeq(source, 2, 1 + a),
                     SubSeq(source, 3 + a, n - 1), SubSeq(source, n + 1, d - 1))
        ELSE null

discordEmoji_parse(capture) ==
    [Blank EXCEPT !.animated = (capture.c1 = <<"a">>), !.name = capture.c2, !.id = capture.c3]

Everyone == <<"@", "e", "v", "e", "r", "y", "o", "n", "e">>
Here == <<"@", "h", "e", "r", "e">>

\* /^@everyone/
discordEveryone_match(source) ==
    IF StartsWith(source, 1, Everyone) THEN Capture(Everyone, <<>>, <<>>, <<>>) ELSE null

\* /^@here/
discordHere_match(source) ==
    IF StartsWith(source, 1, Here) THEN Capture(Here, <<>>, <<>>, <<>>) ELSE null

---------------------------------------------------------------------------
(* markdown.parserFor(rules): the rule list                                *)

\* Object.keys(rules): the rules in the order they are declared, discordRules last
ruleKeys == <<"text", "blockQuote", "codeBlock", "newline", "escape", "autolink", "url",
              "em", "strong", "u", "strike", "inlineCode", "emoticon", "br", "spoiler",
              "discordUser", "discordChannel", "discordRole", "discordEmoji",
              "discordEveryone", "discordHere">>

\* rule.order: simple-markdown's defaults, emoticon takes text's, spoiler 0, the
\* discord rules take strong's
order(type) ==
    CASE type = "spoiler" -> 0
      [] type = "codeBlock" -> 4
      [] type = "blockQuote" -> 6
      [] type = "newline" -> 10
      [] type = "escape" -> 12
      [] type = "autolink" -> 14
      [] type = "url" -> 16
      [] type \in {"em", "strong", "u"} -> 21
      [] type \in {"discordUser", "discordChannel", "discordRole", "discordEmoji",
                   "discordEveryone", "discordHere"} -> 21
      [] type = "strike" -> 22
      [] type = "inlineCode" -> 23
      [] type = "br" -> 24
      [] type \in {"text", "emoticon"} -> 25

\* the rules that carry a quality function
hasQuality(type) == type \in {"em", "strong", "u"}

\* the rule names in increasing unicode lexicographic order
lexicographic == <<"autolink", "blockQuote", "br", "codeBlock", "discordChannel",
                   "discordEmoji", "discordEveryone", "discordHere", "discordRole",
                   "discordUser", "em", "emoticon", "escape", "inlineCode", "newline",
                   "spoiler", "strike", "strong", "text", "u", "url">>

lexRank(type) == CHOOSE i \in 1..Len(lexicographic) : lexicographic[i] = type

declRank(type) == CHOOSE i \in 1..Len(ruleKeys) : ruleKeys[i] = type

\* a comparator that leaves rules of one order as they were declared
ruleBefore_declared(typeA, typeB) ==
    IF order(typeA) # order(typeB) THEN order(typeA) < order(typeB)
    ELSE IF hasQuality(typeA) # hasQuality(typeB) THEN hasQuality(typeA)
    ELSE declRank(typeA) < declRank(typeB)

\* the comparator of ruleList.sort: order, then rules with a quality function,
\* then the rule's name
ruleBefore(typeA, typeB) ==
    IF order(typeA) # order(typeB) THEN order(typeA) < order(typeB)
    ELSE IF hasQuality(typeA) # hasQuality(typeB) THEN hasQuality(typeA)
    ELSE lexRank(typeA) < lexRank(typeB)

ruleList == SortSeq(ruleKeys, ruleBefore)

\* rules[type].match(source, state, prevCaptureStr)
match(type, source, st, prevSource) ==
    CASE type = "text" -> text_match(source)
      [] type = "blockQuote" -> blockQuote_match(source, st, prevSource)
      [] type = "codeBlock" -> codeBlock_match(source, st)
      [] type = "newline" -> newline_match(source, st)
      [] type = "escape" -> escape_match(source, st)
      [] type = "autolink" -> autolink_match(source, st)
      [] type = "url" -> url_match(source, st)
      [] type = "em" -> em_match(source, st)
      [] type = "strong" -> strong_match(source, st)
      [] type = "u" -> u_match(source, st)
      [] type = "strike" -> strike_match(source, st)
      [] type = "inlineCode" -> inlineCode_match(source, st)
      [] type = "emoticon" -> emoticon_match(source)
      [] type = "br" -> br_match(source, st)
      [] type = "spoiler" -> spoiler_match(source)
      [] type = "discordUser" -> discordUser_match(source)
      [] type = "discordChannel" -> discordChannel_match(source)
      [] type = "discordRole" -> discordRole_match(source)
      [] type = "discordEmoji" -> discordEmoji_match(source)
      [] type = "discordEveryone" -> discordEveryone_match(source)
      [] type = "discordHere" -> discordHere_match(source)

\* rules[type].quality(capture), in tenths: em length + 0.2, strong length + 0.1,
\* u length; 0 for a rule without one
quality(type, capture) ==
    CASE type = "em" -> 10 * Len(capture.c0) + 2
      [] type = "strong" -> 10 * Len(capture.c0) + 1
      [] type = "u" -> 10 * Len(capture.c0)
      [] OTHER -> 0

noRule == [found |-> FALSE, ruleType |-> "", capture |-> null, quality |-> 0]

\* the do-while of nestedParse from rule i on: the first rule that matches, or
\* the best of the quality rules that share its order
RECURSIVE ruleLoop(_, _, _, _)
ruleTurn(i, source, st, best) ==
    LET currRuleType == ruleList[i]
        currCapture == match(currRuleType, source, st, st.prevCapture)
        currQuality == quality(currRuleType, currCapture)
        better == currCapture.ok /\ (~best.found \/ ~(currQuality <= best.quality))
        next == IF better
                THEN [found |-> TRUE, ruleType |-> currRuleType,
                      capture |-> currCapture, quality |-> currQuality]
                ELSE best
        again == /\ i + 1 <= Len(ruleList)
                 /\ \/ ~next.found
                    \/ /\ order(ruleList[i + 1]) = order(currRuleType)
                       /\ hasQuality(ruleList[i + 1])
    IN  IF again THEN ruleLoop(i + 1, source, st, next) ELSE next
ruleLoop(i, source, st, best) == Force(LAMBDA b : ruleTurn(i, source, st, b), best)

selectRule(source, st) == ruleLoop(1, source, st, noRule)

\* the rules whose parse calls the parser on the captured content
Nesting == {"blockQuote", "em", "strong", "u", "strike", "spoiler"}
\* of these, simple-markdown's parseCaptureInline rules, which go through parseInline
ParseInline == {"strong", "u", "strike"}

\* rules[type].parse(capture, parse, state) of a rule that makes no nested call
leaf_parse(type, capture, st) ==
    CASE type = "text" -> text_parse(capture)
      [] type = "codeBlock" -> codeBlock_parse(capture, st)
      [] type = "escape" -> escape_parse(capture)
      [] type \in {"autolink", "url"} -> link_parse(capture)
      [] type = "inlineCode" -> inlineCode_parse(capture)
      [] type = "emoticon" -> emoticon_parse(capture)
      [] type \in {"discordUser", "discordChannel", "discordRole"} -> mention_parse(capture)
      [] type = "discordEmoji" -> discordEmoji_parse(capture)
      [] OTHER -> Blank

\* if (parsed.type == null) parsed.type = ruleType
typed(node, ruleType) == IF node.type = "" THEN [node EXCEPT !.type = ruleType] ELSE node

\* the content a nesting rule hands to parse(content, state)
nested_content(type, capture) ==
    CASE type = "blockQuote" -> blockQuote_content(capture)
      [] type = "em" -> em_content(capture)
      [] OTHER -> capture.c1

\* what a nesting rule does to the state before it calls parse(content, state)
nested_enter(type, capture, st) ==
    CASE type = "blockQuote" -> blockQuote_enter(capture, st)
      [] type \in ParseInline -> [st EXCEPT !.inline = TRUE]
      [] OTHER -> st

\* what it does after the call returned; isCurrentlyInline is parseInline's local
nested_leave(type, st, isCurrentlyInline) ==
    CASE type = "blockQuote" -> blockQuote_leave(st)
      [] type \in ParseInline -> [st EXCEPT !.inline = isCurrentlyInline]
      [] OTHER -> st

\* source.replace(/\r\n?/g, '\n').replace(/\f/g, '').replace(/\t/g, '    ')
RECURSIVE preprocess(_)
preprocess(source) ==
    IF source = <<>> THEN <<>>
    ELSE IF Head(source) = "\r"
    THEN <<"\n">> \o preprocess(IF StartsWith(source, 2, <<"\n">>)
                                THEN Drop(source, 2) ELSE Tail(source))
    ELSE IF Head(source) = "\f" THEN preprocess(Tail(source))
    ELSE IF Head(source) = "\t" THEN <<" ", " ", " ", " ">> \o preprocess(Tail(source))
    ELSE <<Head(source)>> \o preprocess(Tail(source))

---------------------------------------------------------------------------
(* sanitize, escape                                                        *)

RECURSIVE sanitizeNode(_)
\* parsed.map(sanitizeNode).join('')
sanitizeAll(nodes) == Force(Concat, [i \in 1..Len(nodes) |-> sanitizeNode(nodes[i])])

\* sanitizeNode with discordRole missing from the case list of ' '
sanitizeNode_roleKept(node) ==
    CASE node.type \in {"strong", "em", "strike", "u", "link", "url", "autolink",
                        "spoiler", "blockQuote"} -> sanitizeAll(node.content)
      [] node.type \in {"discordUser", "discordChannel", "discordEveryone",
                        "discordHere", "discordEmoji", "emoji"} -> <<" ">>
      [] node.type \in {"inlineCode", "codeBlock", "text", "discordRole"} ->
            node.text \o node.id
      [] node.type = "br" -> <<"\n">>
      [] OTHER -> <<>>

sanitizeNode(node) ==
    CASE node.type \in {"strong", "em", "strike", "u", "link", "url", "autolink",
                        "spoiler", "blockQuote"} -> sanitizeAll(node.content)
      [] node.type \in {"discordUser", "discordChannel", "discordRole", "discordEveryone",
                        "discordHere", "discordEmoji", "emoji"} -> <<" ">>
      [] node.type \in {"inlineCode", "codeBlock", "text"} -> node.text
      [] node.type = "br" -> <<"\n">>
      [] OTHER -> <<>>

RECURSIVE escapeChar(_, _)
escapeChar(content, c) ==
    IF content = <<>> THEN <<>>
    ELSE (IF Head(content) = c THEN <<"\\", c>> ELSE <<Head(content)>>)
         \o escapeChar(Tail(content), c)

\* content.replaceAll(c, '\\' + c)
replaceAll(content, c) == Force(LAMBDA v : escapeChar(v, c), content)

escape(content) ==
    replaceAll(replaceAll(replaceAll(replaceAll(replaceAll(replaceAll(replaceAll(replaceAll(
        content, "\\"), "*"), "_"), Backtick), "|"), "~"), ">"), "<")

---------------------------------------------------------------------------
(* The parse as a machine: one step per turn of nestedParse's while loop    *)

\* an activation of nestedParse: what is left of its source and its result so
\* far; given and caps keep what it was called with and the captures it consumed;
\* rule and capture are the nesting rule that called it ("parse" for the outer
\* call); isCurrentlyInline is the caller's saved state.inline
Frame(source, rule, capture, wasInline) ==
    [source |-> source, result |-> <<>>, given |-> source, caps |-> <<>>,
     rule |-> rule, capture |-> capture, isCurrentlyInline |-> wasInline]

Top == stack[Len(stack)]

\* the frame after one capture has been consumed and its node pushed
consume(frame, capture, node) ==
    [frame EXCEPT !.source = Drop(frame.source, Len(capture.c0)),
                  !.result = Append(frame.result, node),
                  !.caps = Append(frame.caps, capture.c0)]

initialState == [inline |-> TRUE, inQuote |-> FALSE, prevCapture |-> <<>>]

\* parse(source): messageUtils(source, { inline: true })
parse ==
    /\ pc = "ready"
    /\ pc' = "parsing"
    /\ state' = initialState
    /\ stack' = <<Frame(preprocess(raw), "parse", null, TRUE)>>
    /\ UNCHANGED <<raw, output, linkVars, dumpVars>>

\* a turn of the loop whose rule parses its capture without a nested call; no
\* rule matching is the Error nestedParse throws
nestedParseLeaf ==
    /\ pc = "parsing"
    /\ Top.source # <<>>
    /\ \E sel \in {selectRule(Top.source, state)} :
           /\ sel.found => sel.ruleType \notin Nesting
           /\ IF ~sel.found
              THEN /\ pc' = "error"
                   /\ UNCHANGED <<stack, state>>
              ELSE /\ pc' = pc
                   /\ stack' = [stack EXCEPT ![Len(stack)] =
                         consume(Top, sel.capture,
                                 typed(leaf_parse(sel.ruleType, sel.capture, state), sel.ruleType))]
                   /\ state' = [state EXCEPT !.prevCapture = sel.capture.c0]
    /\ UNCHANGED <<raw, output, linkVars, dumpVars>>

\* a turn of the loop whose rule calls parse(content, state): up to that call
nestedParseEnter ==
    /\ pc = "parsing"
    /\ Top.source # <<>>
    /\ \E sel \in {selectRule(Top.source, state)} :
           /\ sel.found
           /\ sel.ruleType \in Nesting
           /\ state' = nested_enter(sel.ruleType, sel.capture, state)
           /\ stack' = Append(stack, Frame(nested_content(sel.ruleType, sel.capture),
                                           sel.ruleType, sel.capture, state.inline))
    /\ UNCHANGED <<raw, pc, output, linkVars, dumpVars>>

\* the nested call returns: the rest of the rule's parse, then the end of the
\* caller's turn of the loop
nestedParseReturn ==
    /\ pc = "parsing"
    /\ Len(stack) > 1
    /\ Top.source = <<>>
    /\ LET node == [Blank EXCEPT !.type = Top.rule, !.content = Top.result]
           caller == stack[Len(stack) - 1]
           left == nested_leave(Top.rule, state, Top.isCurrentlyInline)
       IN  /\ stack' = [SubSeq(stack, 1, Len(stack) - 1) EXCEPT ![Len(stack) - 1] =
                            consume(caller, Top.capture, node)]
           /\ state' = [left EXCEPT !.prevCapture = Top.capture.c0]
    /\ UNCHANGED <<raw, pc, output, linkVars, dumpVars>>

\* the outer call returns and sanitize maps the nodes to text
sanitize ==
    /\ pc = "parsing"
    /\ Len(stack) = 1
    /\ Top.source = <<>>
    /\ pc' = "done"
    /\ output' = sanitizeAll(Top.result)
    /\ UNCHANGED <<raw, stack, state, linkVars, dumpVars>>

ParseNext == parse \/ nestedParseLeaf \/ nestedParseEnter \/ nestedParseReturn \/ sanitize

---------------------------------------------------------------------------
(* patterns: the regular expressions of Discord URLs. Each is the set of   *)
(* indices at which a match of the pattern that starts at index i of s can *)
(* end (one past its last character): empty when it cannot match there.    *)

\* the literal characters p
lit(s, i, p) == IF StartsWith(s, i, p) THEN {i + Len(p)} ELSE {}

\* \d{18}
SnowflakeLen == 18
patterns_snowflake(s, i) ==
    IF /\ i >= 1
       /\ i + SnowflakeLen - 1 <= Len(s)
       /\ \A k \in i..(i + SnowflakeLen - 1) : s[k] \in Digits
    THEN {i + SnowflakeLen}
    ELSE {}

\* (?:(?<scheme>https?):\/\/)?(?:(?<version>canary|ptb)\.)?discord\.com
patterns_web(s, i) ==
    LET scheme == {i} \cup lit(s, i, <<"h", "t", "t", "p", ":", "/", "/">>) \cup lit(s, i, <<"h", "t", "t", "p", "s", ":", "/", "/">>)
        version(a) == {a} \cup lit(s, a, <<"c", "a", "n", "a", "r", "y", ".">>) \cup lit(s, a, <<"p", "t", "b", ".">>)
    IN  UNION {UNION {lit(s, b, <<"d", "i", "s", "c", "o", "r", "d", ".", "c", "o", "m">>) : b \in version(a)} : a \in scheme}

\* discord:\/\/-
patterns_protocol(s, i) == lit(s, i, <<"d", "i", "s", "c", "o", "r", "d", ":", "/", "/", "-">>)

\* (?:web|protocol)
patterns_base(s, i) == patterns_web(s, i) \cup patterns_protocol(s, i)

\* base\/channels\/(?<guildId>snowflake|@me)
patterns_guild(s, i) ==
    UNION {UNION {patterns_snowflake(s, c) \cup lit(s, c, <<"@", "m", "e">>)
                  : c \in lit(s, b, <<"/", "c", "h", "a", "n", "n", "e", "l", "s", "/">>)}
           : b \in patterns_base(s, i)}

\* guild\/(?<channelId>snowflake)
patterns_channel(s, i) ==
    UNION {UNION {patterns_snowflake(s, c) : c \in lit(s, g, <<"/">>)}
           : g \in patterns_guild(s, i)}

\* channel\/(?<messageId>snowflake)
patterns_message(s, i) ==
    UNION {UNION {patterns_snowflake(s, c) : c \in lit(s, e, <<"/">>)}
           : e \in patterns_channel(s, i)}

\* String.prototype.match with a pattern that has no anchors and no g flag:
\* the match that starts leftmost in s, with its named groups; null when
\* the pattern matches nowhere. Both ids end a fixed distance before the end
\* of the match.
String_match(s) ==
    LET starts == {i \in 1..(Len(s) + 1) : patterns_message(s, i) # {}}
    IN  IF starts = {} THEN null
        ELSE LET index == Min(starts)
                 e == Max(patterns_message(s, index))
             IN  [ok |-> TRUE,
                  index |-> index,
                  all |-> SubSeq(s, index, e - 1),
                  channelId |-> SubSeq(s, e - 2 * SnowflakeLen - 1, e - SnowflakeLen - 2),
                  messageId |-> SubSeq(s, e - SnowflakeLen, e - 1)]

---------------------------------------------------------------------------
(* resolveMessageLink                                                      *)

\* a promise: pending, rejected with an error, or fulfilled with a message
Pending == [status |-> "pending", class |-> "", message |-> "", id |-> <<>>]
Rejected(class, message) ==
    [status |-> "rejected", class |-> class, message |-> message, id |-> <<>>]
Fulfilled(id) == [status |-> "fulfilled", class |-> "Message", message |-> "", id |-> id]

NotAMessageLink == Rejected("TypeError", "The provided link is not a message link!")
NotATextChannel == Rejected("MessageResolveError", "Channel is not a text channel!")
NoPermission == Rejected("MessageResolveError", "User does not have permission!")
\* options.asUser with options undefined; .username of the null that
\* client.users.resolve returns for a user it does not know
PropertyOfNothing == Rejected("TypeError", "Cannot read properties")
\* what discord.js rejects a fetch with
UnknownChannel == Rejected("DiscordAPIError", "Unknown Channel")
UnknownMessage == Rejected("DiscordAPIError", "Unknown Message")

\* the third argument: left out, or a user the client can or cannot resolve
AsUser == {"undefined", "known", "unknown"}

\* the channels client.channels.fetch may resolve to, by class, with what the
\* calls that resolveMessageLink makes on them return for asUser
NoChannel ==
    [class |-> "none", isText |-> FALSE, permissionsFor |-> "", recipient |-> "",
     recipients |-> ""]
Channels ==
    {[NoChannel EXCEPT !.class = "GuildChannel", !.isText = t, !.permissionsFor = p]
        : t \in BOOLEAN, p \in {"null", "none", "VIEW_CHANNEL"}}
    \cup {[NoChannel EXCEPT !.class = "DMChannel", !.isText = t, !.recipient = r]
        : t \in BOOLEAN, r \in {"asUser", "other"}}
    \cup {[NoChannel EXCEPT !.class = "PartialGroupDMChannel", !.isText = t, !.recipients = r]
        : t \in BOOLEAN, r \in {"empty", "asUser", "others"}}
    \cup {[NoChannel EXCEPT !.class = "ThreadChannel", !.isText = t] : t \in BOOLEAN}

\* channel.permissionsFor(options.asUser)?.has(Permissions.FLAGS.VIEW_CHANNEL)
hasViewChannel(ch, asUser) == asUser = "known" /\ ch.permissionsFor = "VIEW_CHANNEL"
\* channel.recipient.id !== client.users.resolveId(options.asUser)
isRecipient(ch, asUser) == asUser = "known" /\ ch.recipient = "asUser"
\* channel.recipients.some(r => r.username === client.users.resolve(options.asUser).username)
someRecipient(ch, asUser) == ch.recipients = "asUser"

\* the instanceof checks of the condition, only the guild channel's kept
denied_guildOnly(ch, asUser) ==
    ch.class = "GuildChannel" /\ ~hasViewChannel(ch, asUser)

\* the condition of the else-if: the user has no permission
denied(ch, asUser) ==
    \/ ch.class = "GuildChannel" /\ ~hasViewChannel(ch, asUser)
    \/ ch.class = "DMChannel" /\ ~isRecipient(ch, asUser)
    \/ ch.class = "PartialGroupDMChannel" /\ ~someRecipient(ch, asUser)

\* evaluating that condition throws: options is undefined where options.asUser
\* is read, or the resolved user is null where its username is read
throws(ch, asUser) ==
    \/ /\ ch.class \in {"GuildChannel", "DMChannel"}
       /\ asUser = "undefined"
    \/ /\ ch.class = "PartialGroupDMChannel"
       /\ ch.recipients # "empty"
       /\ asUser \in {"undefined", "unknown"}

Call(api, id, result) == [api |-> api, id |-> id, result |-> result]
settle(log, result) == [log EXCEPT ![Len(log)].result = result]

\* the id that the channel is fetched by, the message's in its place
fetchedId_message(m) == m.messageId
\* the id that the channel is fetched by
fetchedId(m) == m.channelId

\* resolveMessageLink is called: up to its first await
resolveMessageLink ==
    /\ rpc = "called"
    /\ \E m \in {String_match(link)} :
         IF ~m.ok
         THEN /\ outcome' = NotAMessageLink
              /\ rpc' = "done"
              /\ calls' = calls
         ELSE /\ calls' = Append(calls, Call("channels.fetch", fetchedId(m), "pending"))
              /\ rpc' = "channels.fetch"
              /\ outcome' = outcome
    /\ UNCHANGED <<link, world>>
    /\ UNCHANGED <<parseVars, dumpVars>>

\* client.channels.fetch settles: from the first await to the second
channelsFetchSettled ==
    /\ rpc = "channels.fetch"
    /\ \/ /\ calls' = settle(calls, "rejected")
          /\ outcome' = UnknownChannel
          /\ rpc' = "done"
          /\ world' = world
       \/ \E ch \in Channels :
            /\ world' = [world EXCEPT !.channel = ch]
            /\ IF ~ch.isText
               THEN /\ outcome' = NotATextChannel
                    /\ rpc' = "done"
                    /\ calls' = settle(calls, "resolved")
               ELSE IF throws(ch, world.asUser)
               THEN /\ outcome' = PropertyOfNothing
                    /\ rpc' = "done"
                    /\ calls' = settle(calls, "resolved")
               ELSE IF denied(ch, world.asUser)
               THEN /\ outcome' = NoPermission
                    /\ rpc' = "done"
                    /\ calls' = settle(calls, "resolved")
               ELSE /\ calls' = Append(settle(calls, "resolved"),
                                       Call("messages.fetch", String_match(link).messageId,
                                            "pending"))
                    /\ rpc' = "messages.fetch"
                    /\ outcome' = outcome
    /\ UNCHANGED link
    /\ UNCHANGED <<parseVars, dumpVars>>

\* channel.messages.fetch settles: the call returns what it gave, or fails as
\* it failed
messagesFetchSettled ==
    /\ rpc = "messages.fetch"
    /\ \/ /\ calls' = settle(calls, "rejected")
          /\ outcome' = UnknownMessage
       \/ /\ calls' = settle(calls, "resolved")
          /\ outcome' = Fulfilled(calls[Len(calls)].id)
    /\ rpc' = "done"
    /\ UNCHANGED <<link, world>>
    /\ UNCHANGED <<parseVars, dumpVars>>

ResolveNext == resolveMessageLink \/ channelsFetchSettled \/ messagesFetchSettled

\* the other programs, not started
LinkIdle ==
    /\ link = <<>>
    /\ world = [asUser |-> "undefined", channel |-> NoChannel]
    /\ rpc = "idle"
    /\ calls = <<>>
    /\ outcome = Pending
---------------------------------------------------------------------------
(* dump.kt: readOldMessages and the import of what it emits                *)

\* how many instants a day has
TicksPerDay == 2

\* LocalDate.atTime(0, 0).toInstant(ZoneOffset.UTC)
atStartOfDay(date) == date * TicksPerDay

\* the index in the history, newest first, of the first message whose
\* snowflake is below Snowflake.of(endDate): the messages sent before endDate
getMessagesBefore(msgs, endDate) ==
    Min({i \in 1..(Len(msgs) + 1) : i = Len(msgs) + 1 \/ msgs[i].timestamp < endDate})

\* .filter { it.type == Message.Type.DEFAULT }
isDefault(msg) == msg.type = "DEFAULT"

\* the predicate of takeUntil: the message is relayed, then the stream ends
stopsAt(msg, startDate) == msg.timestamp < atStartOfDay(startDate)

\* .window(1000)
WindowSize == 1000

\* dbDumper and elasticDumper are given the messages of a window
dumped(batches, messages) ==
    IF messages = <<>> THEN batches
    ELSE batches \o <<[dumper |-> "db", messages |-> messages],
                      [dumper |-> "elastic", messages |-> messages]>>

\* runDump subscribes to readOldMessages of the channel
runDump ==
    /\ upstream = "idle"
    /\ upstream' = "open"
    /\ cursor' = getMessagesBefore(history, dates.endDate)
    /\ UNCHANGED <<history, dates, emitted, window, imported>>
    /\ UNCHANGED <<parseVars, linkVars>>

\* the channel's next message goes down the pipeline: filter, takeUntil, the
\* flatMap that attaches author and reactors (a failure there is logged and
\* the message left out), window and the dumpers
onNext ==
    /\ upstream = "open"
    /\ cursor <= Len(history)
    /\ cursor' = cursor + 1
    /\ \E msg \in {history[cursor]}, zipped \in BOOLEAN :
         IF ~isDefault(msg)
         THEN UNCHANGED <<upstream, emitted, window, imported>>
         ELSE LET last == stopsAt(msg, dates.startDate)
                  group == IF zipped THEN Append(window, msg) ELSE window
                  closes == last \/ Len(group) = WindowSize
              IN  /\ emitted' = Append(emitted, msg)
                  /\ upstream' = IF last THEN "cancelled" ELSE upstream
                  /\ window' = IF closes THEN <<>> ELSE group
                  /\ imported' = IF closes THEN dumped(imported, group) ELSE imported
    /\ UNCHANGED <<history, dates>>
    /\ UNCHANGED <<parseVars, linkVars>>

\* the channel has no more messages: the open window is closed and dumped
onComplete ==
    /\ upstream = "open"
    /\ cursor > Len(history)
    /\ upstream' = "complete"
    /\ window' = <<>>
    /\ imported' = dumped(imported, window)
    /\ UNCHANGED <<history, dates, cursor, emitted>>
    /\ UNCHANGED <<parseVars, linkVars>>

DumpNext == runDump \/ onNext \/ onComplete

DumpIdle ==
    /\ history = <<>>
    /\ dates = [startDate |-> 0, endDate |-> 0]
    /\ cursor = 0
    /\ upstream = "idle"
    /\ emitted = <<>>
    /\ window = <<>>
    /\ imported = <<>>

ParseIdle == raw = <<>> /\ pc = "idle" /\ stack = <<>> /\ state = initialState /\ output = <<>>

\* sanitize is about to be called with one of the strings of I
ParseInit(I) ==
    /\ raw \in I
    /\ pc = "ready"
    /\ stack = <<>>
    /\ state = initialState
    /\ output = <<>>
    /\ LinkIdle
    /\ DumpIdle

---------------------------------------------------------------------------
(* The messages the parser is run on                                       *)

\* every concatenation of at most n of the pieces P
RECURSIVE Joined(_, _)
Joined(P, n) ==
    IF n = 0 THEN {<<>>}
    ELSE LET S == Joined(P, n - 1) IN S \cup {s \o p : s \in S, p \in P}

\* lines joined by newlines
RECURSIVE JoinLines(_)
JoinLines(lines) ==
    IF Len(lines) = 0 THEN <<>>
    ELSE IF Len(lines) = 1 THEN lines[1]
    ELSE lines[1] \o <<"\n">> \o JoinLines(Tail(lines))

MaxPieces == 3
GeneralPieces == {<<"a">>, <<"\n">>, <<"\t">>, <<"*">>, <<"_">>, <<">", " ">>,
                  <<"|", "|">>, <<Backtick>>}
GeneralInputs == Joined(GeneralPieces, MaxPieces)
\* the pieces of the messages whose parse is followed to its end
TotalityPieces == {<<"a">>, <<"\n">>, <<"\t">>, <<"*">>, <<">", " ">>, <<Backtick>>}
TotalityInputs == Joined(TotalityPieces, MaxPieces)

\* what escape() is given: ordinary text, the characters it escapes, the
\* everyone and here mentions, a bare URL
MaxEscapePieces == 2
EscapePieces == {<<"a">>, <<" ">>, <<"\\">>, <<"*">>, <<"_">>, <<Backtick>>, <<"|">>,
                 <<"~">>, <<">">>, <<"<">>, <<"@">>, Everyone, Here,
                 <<"h", "t", "t", "p", ":", "/", "/", "a", "_", "b">>}
EscapeSources == Joined(EscapePieces, MaxEscapePieces)
EscapedInputs == {escape(s) : s \in EscapeSources}

\* platform references with ids of 1..MaxIdLen digits
MaxIdLen == 2
Ids == {[i \in 1..n |-> "7"] : n \in 1..MaxIdLen}
RefTokens ==
    {<<"<", "@">> \o id \o <<">">> : id \in Ids}
    \cup {<<"<", "@", "!">> \o id \o <<">">> : id \in Ids}
    \cup {<<"<", "@", "&">> \o id \o <<">">> : id \in Ids}
    \cup {<<"<", "#">> \o id \o <<">">> : id \in Ids}
    \cup {<<"<", ":", "n", ":">> \o id \o <<">">> : id \in Ids}
    \cup {<<"<", "a", ":", "n", ":">> \o id \o <<">">> : id \in Ids}
    \cup {Everyone, Here}

\* a container's opening and closing syntax
Formatting == {<< <<>>, <<>> >>,
               << <<"*", "*">>, <<"*", "*">> >>,
               << <<"*">>, <<"*">> >>,
               << <<"_", "_">>, <<"_", "_">> >>,
               << <<"_">>, <<"_">> >>,
               << <<"~", "~">>, <<"~", "~">> >>,
               << <<"|", "|">>, <<"|", "|">> >>}
Quoting == {<< <<">", " ">>, <<>> >>, << <<">", ">", ">", " ">>, <<>> >>}
Around == {<< <<>>, <<>> >>, << <<"x">>, <<"y">> >>}

\* a reference, with or without text beside it, inside up to two containers
\* of different kinds
RefMessage(outer, inner, around, token) ==
    outer[1] \o inner[1] \o around[1] \o token \o around[2] \o inner[2] \o outer[2]
Containers ==
    {c \in (Formatting \cup Quoting) \X Formatting : c[1] # c[2] \/ c[2] = << <<>>, <<>> >>}
RefInputs ==
    {RefMessage(c[1], c[2], around, token) :
        c \in Containers, around \in Around, token \in RefTokens}

\* block quotes of at most MaxQuoteLines lines of plain text
MaxQuoteLines == 3
QuoteTexts == {<<>>, <<"h", "i">>, <<" ", "a", ":", "b", " ", "c">>}
QuoteBodies == UNION {[1..n -> QuoteTexts] : n \in 1..MaxQuoteLines}
LineQuote(lines) == JoinLines([i \in 1..Len(lines) |-> <<">", " ">> \o lines[i]])
BlockQuote(lines) == <<">", ">", ">", " ">> \o JoinLines(lines)
QuoteInputs == {LineQuote(b) : b \in QuoteBodies} \cup {BlockQuote(b) : b \in QuoteBodies}

\* the shrug with at most MaxAround pieces before and after it
MaxAround == 1
ShrugPieces == {<<"a">>, <<" ">>, <<"_">>, <<"\\">>, <<"\n">>}
ShrugInputs ==
    {pre \o Shrug \o post : pre \in Joined(ShrugPieces, MaxAround),
                            post \in Joined(ShrugPieces, MaxAround)}

Inputs == GeneralInputs \cup EscapedInputs \cup RefInputs \cup QuoteInputs \cup ShrugInputs

Init == ParseInit(Inputs)
Next == ParseNext

Spec == Init /\ [][Next]_vars

\* parse and sanitize are synchronous: a call that can take a step takes it
SpecTotality == ParseInit(TotalityInputs) /\ [][Next]_vars /\ WF_vars(Next)

---------------------------------------------------------------------------
(* The links resolveMessageLink is called with                             *)

Rep(c, n) == [k \in 1..n |-> c]

\* how many characters stand before and after the link
MaxJunk == 1
\* by how many digits an id is shorter than a snowflake
MaxShort == 1

Heads == {<<"d", "i", "s", "c", "o", "r", "d", ".", "c", "o", "m">>, <<"h", "t", "t", "p", "s", ":", "/", "/">> \o <<"d", "i", "s", "c", "o", "r", "d", ".", "c", "o", "m">>, <<"h", "t", "t", "p", ":", "/", "/">> \o <<"p", "t", "b", ".">> \o <<"d", "i", "s", "c", "o", "r", "d", ".", "c", "o", "m">>,
          <<"c", "a", "n", "a", "r", "y", ".">> \o <<"d", "i", "s", "c", "o", "r", "d", ".", "c", "o", "m">>, <<"d", "i", "s", "c", "o", "r", "d", ":", "/", "/", "-">>, <<"f", "t", "p", ":", "/", "/">> \o <<"d", "i", "s", "c", "o", "r", "d", ".", "c", "o", "m">>, <<"d", "i", "s", "c", "o", "r", "d", ".", "g", "g">>}
Before == {Rep("x", n) : n \in 0..MaxJunk}
After == {Rep("9", n) : n \in 0..MaxJunk} \cup {Rep("x", n) : n \in 0..MaxJunk}
IdLengths == (SnowflakeLen - MaxShort)..SnowflakeLen
GuildIds == {Rep("1", n) : n \in IdLengths} \cup {<<"@", "m", "e">>}
ChannelIds == {Rep("2", n) : n \in IdLengths} \cup {Rep("2", SnowflakeLen + 1)}
MessageIds == {Rep("3", n) : n \in IdLengths}

Links ==
    {<<"n", "o", "t", " ", "a", " ", "l", "i", "n", "k">>}
    \cup {pre \o head \o <<"/", "c", "h", "a", "n", "n", "e", "l", "s", "/">> \o g \o <<"/">> \o c \o <<"/">> \o m \o post
          : pre \in Before, head \in Heads, g \in GuildIds, c \in ChannelIds,
            m \in MessageIds, post \in After}

ResolveInit ==
    /\ link \in Links
    /\ world \in [asUser : AsUser, channel : {NoChannel}]
    /\ rpc = "called"
    /\ calls = <<>>
    /\ outcome = Pending
    /\ ParseIdle
    /\ DumpIdle

SpecResolve == ResolveInit /\ [][ResolveNext]_vars

---------------------------------------------------------------------------
(* The channels runDump reads                                              *)

\* how many messages the channel has
MaxHistory == 3
\* the instants of two days
Ticks == 0..(2 * TicksPerDay - 1)
MessageTypes == {"DEFAULT", "GUILD_MEMBER_JOIN"}

\* the channel's messages, newest first: one per instant at most
Histories ==
    UNION {{h \in [1..n -> [timestamp : Ticks, type : MessageTypes]] :
              \A i \in 1..(n - 1) : h[i].timestamp > h[i + 1].timestamp}
           : n \in 0..MaxHistory}

\* startDate is a day; endDate is the start of a day, or now
DumpInit ==
    /\ history \in Histories
    /\ dates \in [startDate : 0..1, endDate : 0..(2 * TicksPerDay)]
    /\ cursor = 0
    /\ upstream = "idle"
    /\ emitted = <<>>
    /\ window = <<>>
    /\ imported = <<>>
    /\ ParseIdle
    /\ LinkIdle

SpecDump == DumpInit /\ [][DumpNext]_vars

---------------------------------------------------------------------------
(* Claims about parse, sanitize and escape                                 *)

\* every activation has consumed, in order and with no gap, a prefix of what
\* it was given, in captures of at least one character
CapturesContiguous ==
    \A f \in 1..Len(stack) :
        /\ \A c \in 1..Len(stack[f].caps) : Len(stack[f].caps[c]) >= 1
        /\ Concat(stack[f].caps) \o stack[f].source = stack[f].given

\* wherever input is left, the plain-text rule matches at least one character
TextAlwaysMatches ==
    (pc = "parsing" /\ Top.source # <<>>) =>
        /\ text_match(Top.source).ok
        /\ Len(text_match(Top.source).c0) >= 1
        /\ selectRule(Top.source, state).found

\* C1 as stated: parse ends without an error and the captures of the outer call,
\* concatenated, are the input string itself
C1_CapturesEqualInput ==
    /\ pc # "error"
    /\ CapturesContiguous
    /\ pc = "done" => Concat(stack[1].caps) = raw

\* C1, amended: parse always ends, never in an error; the captures are
\* non-empty and contiguous, and those of the outer call concatenate to the
\* input as simple-markdown preprocessed it (CR and CRLF to LF, form feeds
\* dropped, tabs to four spaces)
C1_Totality ==
    /\ [](/\ pc # "error"
          /\ CapturesContiguous
          /\ TextAlwaysMatches
          /\ Len(stack) >= 1 => stack[1].given = preprocess(raw)
          /\ pc = "done" => Concat(stack[1].caps) = preprocess(raw))
    /\ <>(pc = "done")

\* a message with a tab in it has been parsed, in more than one capture
C1_Witness ==
    /\ pc = "done"
    /\ \E i \in 1..Len(raw) : raw[i] = "\t"
    /\ Len(stack[1].caps) >= 2
    /\ Concat(stack[1].caps) = preprocess(raw)

\* C2 as stated: sanitize(escape(s)) = s for every newline-free s of ordinary
\* text and special characters, @everyone, @here and bare URLs included
C2_EscapeRoundTrip ==
    (pc = "done" /\ raw \in EscapedInputs) =>
        \A s \in EscapeSources : escape(s) = raw => output = s

\* the platform references among the nodes, at any depth sanitize descends to
RECURSIVE refCount(_)
refCount(nodes) ==
    IF nodes = <<>> THEN 0
    ELSE (IF Head(nodes).type \in {"discordUser", "discordChannel", "discordRole",
                                   "discordEmoji", "discordEveryone", "discordHere"}
          THEN 1 ELSE refCount(Head(nodes).content))
         + refCount(Tail(nodes))

\* the characters of the literal nodes (text, code, line breaks)
RECURSIVE literalLength(_)
literalLength(nodes) ==
    IF nodes = <<>> THEN 0
    ELSE (IF Head(nodes).type \in {"text", "inlineCode", "codeBlock"} THEN Len(Head(nodes).text)
          ELSE IF Head(nodes).type = "br" THEN 1
          ELSE literalLength(Head(nodes).content))
         + literalLength(Tail(nodes))

\* C3: a platform reference, alone or beside text, bare or inside formatting,
\* a spoiler or a block quote (two deep), becomes exactly one space, with no
\* character of its id or name; and in every parse each reference node at any
\* depth adds one character to what sanitize returns
C3_ReferencesRedacted ==
    pc = "done" =>
        /\ \A c \in Containers, around \in Around, token \in RefTokens :
              raw = RefMessage(c[1], c[2], around, token) =>
                  output = around[1] \o <<" ">> \o around[2]
        /\ raw \in RefTokens => output = <<" ">>
        /\ Len(output) = refCount(stack[1].result) + literalLength(stack[1].result)

\* a role mention between text, inside bold inside a block quote, is sanitized
C3_Witness ==
    /\ pc = "done"
    /\ raw = RefMessage(<< <<">", " ">>, <<>> >>, << <<"*", "*">>, <<"*", "*">> >>,
                        << <<"x">>, <<"y">> >>, <<"<", "@", "&", "7", "7", ">">>)
    /\ output = <<"x", " ", "y">>
    /\ refCount(stack[1].result) = 1

\* C7: a message of "> " lines comes back as the lines without their markers,
\* newlines kept; a ">>> " message is one quote and comes back as its remainder
C7_QuoteMarkersStripped ==
    pc = "done" =>
        \A b \in QuoteBodies :
            (raw = LineQuote(b) \/ raw = BlockQuote(b)) =>
                /\ output = JoinLines(b)
                /\ Len(stack[1].result) <= 1
                /\ \A n \in 1..Len(stack[1].result) : stack[1].result[n].type = "blockQuote"

\* a three-line "> " quote has been sanitized
C7_Witness ==
    /\ pc = "done"
    /\ raw = LineQuote(<< <<"h", "i">>, <<>>, <<" ", "a", ":", "b", " ", "c">> >>)
    /\ output = <<"h", "i", "\n", "\n", " ", "a", ":", "b", " ", "c">>

\* C8: wherever the remaining input starts with the shrug, the emoticon rule is
\* the one selected and it captures the whole shrug; sanitize of the shrug is
\* the shrug, as one text node
C8_ShrugIsText ==
    /\ (pc = "parsing" /\ StartsWith(Top.source, 1, Shrug)) =>
          /\ selectRule(Top.source, state).ruleType = "emoticon"
          /\ selectRule(Top.source, state).capture.c0 = Shrug
    /\ (pc = "done" /\ raw = Shrug) =>
          /\ output = Shrug
          /\ stack[1].result = <<[Blank EXCEPT !.type = "text", !.text = Shrug]>>

\* the shrug is what is left of the input after some text was consumed
C8_Witness ==
    /\ pc = "parsing"
    /\ StartsWith(Top.source, 1, Shrug)
    /\ Top.caps # <<>>
    /\ selectRule(Top.source, state).ruleType = "emoticon"

\* C9 as stated: once the block-quote rule's parse has returned, inQuote is
\* what it was before the quote: outside every quote it is false
C9_ContextRestored ==
    (pc \in {"parsing", "done"} /\ \A f \in 1..Len(stack) : stack[f].rule # "blockQuote")
        => ~state.inQuote

---------------------------------------------------------------------------
(* Claims about resolveMessageLink                                         *)

\* the link is a message link and nothing else: ^ and $ around patterns.message
exactLink(s) == (Len(s) + 1) \in patterns_message(s, 1)

\* the ids of a link that is exactly a message link, by their place in it
channelIdOf(s) == SubSeq(s, Len(s) - 2 * SnowflakeLen, Len(s) - SnowflakeLen - 1)
messageIdOf(s) == SubSeq(s, Len(s) - SnowflakeLen + 1, Len(s))

\* the access policy of the channel's type holds for the user the call is
\* made for
policyHolds(ch, asUser) ==
    /\ asUser = "known"
    /\ CASE ch.class = "GuildChannel" -> ch.permissionsFor = "VIEW_CHANNEL"
         [] ch.class = "DMChannel" -> ch.recipient = "asUser"
         [] ch.class = "PartialGroupDMChannel" -> ch.recipients = "asUser"
         [] OTHER -> TRUE

hasPolicy(ch) == ch.class \in {"GuildChannel", "DMChannel", "PartialGroupDMChannel"}

C5_MalformedRejected ==
    (rpc # "called" /\ ~exactLink(link)) =>
        /\ outcome = NotAMessageLink
        /\ calls = <<>>

\* C6: for a link that is exactly a message link, the channel is fetched
\* first, once, by the link's channel id, the message after that fetch has
\* resolved, once, by the link's message id; a fetch that fails is the last
\* and its failure is the call's, and a message is returned only when both
\* have resolved
C6_LookupsInSequence ==
    exactLink(link) =>
        /\ Len(calls) <= 2
        /\ Len(calls) >= 1 =>
              calls[1].api = "channels.fetch" /\ calls[1].id = channelIdOf(link)
        /\ Len(calls) = 2 =>
              /\ calls[1].result = "resolved"
              /\ calls[2].api = "messages.fetch"
              /\ calls[2].id = messageIdOf(link)
        /\ \A i \in 1..Len(calls) :
              /\ calls[i].result = "rejected" =>
                    /\ i = Len(calls)
                    /\ rpc = "done"
                    /\ outcome = IF calls[i].api = "channels.fetch"
                                 THEN UnknownChannel ELSE UnknownMessage
              /\ calls[i].result = "pending" =>
                    /\ i = Len(calls)
                    /\ rpc = calls[i].api
                    /\ outcome = Pending
        /\ outcome.status = "fulfilled" =>
              /\ Len(calls) = 2
              /\ calls[2].result = "resolved"
              /\ outcome.id = messageIdOf(link)

\* the message fetch of a message link has failed, after the channel's
C6_Witness ==
    /\ exactLink(link)
    /\ Len(calls) = 2
    /\ calls[2].result = "rejected"
    /\ outcome = UnknownMessage

---------------------------------------------------------------------------
(* Claims about the dump                                                   *)

withinDates(msg) ==
    /\ isDefault(msg)
    /\ msg.timestamp < dates.endDate
    /\ msg.timestamp >= atStartOfDay(dates.startDate)

\* C10: every message readOldMessages emits, and every message given to a
\* dumper, is a DEFAULT message sent before endDate and not before 00:00 UTC
\* of startDate
C10_WithinDates ==
    /\ \A i \in 1..Len(emitted) : withinDates(emitted[i])
    /\ \A b \in 1..Len(imported) :
          \A i \in 1..Len(imported[b].messages) : withinDates(imported[b].messages[i])

====
